---- MODULE Spec2Model ----
(***************************************************************************)
(* A model of xit, a small revision-tracking tool: the object store        *)
(* (blob / tree / commit), the staging index, the references and the       *)
(* status engine.                                                          *)
(*                                                                         *)
(* Strings and byte buffers are sequences of tokens.  A token is a tuple   *)
(* whose first element is a string: <<"a">> is the character a, <<"blob">> *)
(* the run of characters blob, NUL / SP / LF / CR the bytes 0, 32, 10, 13. *)
(* A SHA-1 digest is 20 byte tokens of which the first carries the hashed  *)
(* data (the hash is taken to be collision free); its hexadecimal form is  *)
(* 40 nibble tokens.                                                       *)
(***************************************************************************)
EXTENDS Naturals, Sequences, FiniteSets, TLC

VARIABLES
    xitDir,      \* TRUE iff the directory .xit exists
    head,        \* the file .xit/HEAD
    xitRefs,     \* files below .xit/ that hold references: path -> content
    gitRefs,     \* files below .git/ that hold references: path -> content
    objects,     \* files below .xit/objects: hex address -> compressed bytes
    index,       \* the file .xit/index
    wd,          \* the user's files of the working directory: path -> file
    xitignore,   \* the file .xitignore
    globalUser,  \* the file $HOME/.xit/config, its content the [user] identity
    lastOp,      \* what the last command did and returned
    lastCommit,  \* the address the last successful commit returned, if any
    headFiles    \* an injected HEAD file map (used by the status function checks)

vars == <<xitDir, head, xitRefs, gitRefs, objects, index, wd, xitignore,
          globalUser, lastOp, lastCommit, headFiles>>

-----------------------------------------------------------------------------
(* Bounds of the model *)

\* the commit command is not run when it would leave more tree objects
MaxTrees == 2

-----------------------------------------------------------------------------
(* Tokens, strings, results *)

\* a file of the file system: absent, or present with a content
NoFile == [exists |-> FALSE]
File(c) == [exists |-> TRUE, content |-> c]

NUL == <<"NUL">>
SP  == <<" ">>
LF  == <<"LF">>
CR  == <<"CR">>
TAB == <<"TAB">>
Slash == <<"/">>

Whitespace == {SP, LF, CR, TAB}

Ok(v)  == [ok |-> TRUE, val |-> v]
Err(e) == [ok |-> FALSE, err |-> e]

EmptyMap == <<>>

\* m with key k set to v (HashMap::insert)
Insert(m, k, v) == (k :> v) @@ m

\* position of the first token of s, from position i on, that is in set T
RECURSIVE PositionIn(_, _, _)
PositionIn(s, T, i) ==
    IF i > Len(s) THEN 0 ELSE IF s[i] \in T THEN i ELSE PositionIn(s, T, i + 1)

\* position of the first token of s equal to t, 0 when there is none
Position(s, t) == PositionIn(s, {t}, 1)

\* position of the first whitespace token of s, 0 when there is none
FirstWhitespace(s) == PositionIn(s, Whitespace, 1)

StartsWith(s, p) == Len(s) >= Len(p) /\ SubSeq(s, 1, Len(p)) = p

RECURSIVE trim_start(_)
trim_start(s) == IF s # <<>> /\ s[1] \in Whitespace THEN trim_start(Tail(s)) ELSE s

RECURSIVE trim_end(_)
trim_end(s) ==
    IF s # <<>> /\ s[Len(s)] \in Whitespace THEN trim_end(SubSeq(s, 1, Len(s) - 1)) ELSE s

trim(s) == trim_end(trim_start(s))

\* str::trim_end_matches('\n')
RECURSIVE trim_end_newlines(_)
trim_end_newlines(s) ==
    IF s # <<>> /\ s[Len(s)] = LF THEN trim_end_newlines(SubSeq(s, 1, Len(s) - 1)) ELSE s

\* str::split_whitespace: the maximal runs of non-whitespace tokens
RECURSIVE split_whitespace(_)
split_whitespace(s) ==
    LET t == trim_start(s)
        w == FirstWhitespace(t)
    IN  IF t = <<>> THEN <<>>
        ELSE IF w = 0 THEN <<t>>
        ELSE <<SubSeq(t, 1, w - 1)>> \o split_whitespace(SubSeq(t, w + 1, Len(t)))

\* str::split(sep): the pieces between the occurrences of sep
RECURSIVE split(_, _)
split(s, sep) ==
    LET k == Position(s, sep)
    IN  IF k = 0 THEN <<s>>
        ELSE <<SubSeq(s, 1, k - 1)>> \o split(SubSeq(s, k + 1, Len(s)), sep)

\* str::lines: split at LF, a trailing CR of a line dropped, no last empty line
RECURSIVE lines(_)
lines(s) ==
    LET k == Position(s, LF)
        strip(l) == IF l # <<>> /\ l[Len(l)] = CR THEN SubSeq(l, 1, Len(l) - 1) ELSE l
    IN  IF s = <<>> THEN <<>>
        ELSE IF k = 0 THEN <<strip(s)>>
        ELSE <<strip(SubSeq(s, 1, k - 1))>> \o lines(SubSeq(s, k + 1, Len(s)))

\* str::replace("\r\n", "\n")
RECURSIVE replace_crlf(_)
replace_crlf(s) ==
    IF s = <<>> THEN <<>>
    ELSE IF Len(s) >= 2 /\ s[1] = CR /\ s[2] = LF THEN <<LF>> \o replace_crlf(SubSeq(s, 3, Len(s)))
    ELSE <<s[1]>> \o replace_crlf(Tail(s))

\* a decimal number as text (format!("{}", n))
Decimal(n) == <<<<ToString(n)>>>>

-----------------------------------------------------------------------------
(* objects/blob.rs: hashing, compression, blobs *)

DigestLen == 20
HexLen == 40

\* n tokens t
RECURSIVE Repeat(_, _)
Repeat(t, n) == IF n = 0 THEN <<>> ELSE <<t>> \o Repeat(t, n - 1)

compute_sha1(data) == <<<<"sha1", data>>>> \o Repeat(<<"sha1 pad">>, DigestLen - 1)

compress_zlib(data) == <<<<"zlib">>>> \o data

\* flate2::read::ZlibDecoder + read_to_end
zlib_decode(bytes) ==
    IF bytes # <<>> /\ bytes[1] = <<"zlib">> THEN Ok(Tail(bytes)) ELSE Err("InvalidInput")

\* two lowercase hexadecimal digits for every byte: the token of the high
\* digit carries the byte, the token of the low digit completes it
RECURSIVE hash_to_hex(_)
hash_to_hex(hash) ==
    IF hash = <<>> THEN <<>>
    ELSE <<<<"hex hi", hash[1]>>, <<"hex lo">>>> \o hash_to_hex(Tail(hash))

is_ascii_hexdigit(c) == c[1] \in {"hex hi", "hex lo"}

\* the header "<kind> <len>\0" of a stored object
ObjectHeader(kind, content) == <<<<kind>>, SP>> \o Decimal(Len(content)) \o <<NUL>>

\* a store that opens the object file for appending
WriteObjectFile_append(objs, hash_str, bytes) ==
    Insert(objs, hash_str, (IF hash_str \in DOMAIN objs THEN objs[hash_str] ELSE <<>>) \o bytes)

\* fs::write of an object file: creates or replaces the file at the address
WriteObjectFile(objs, hash_str, bytes) == Insert(objs, hash_str, bytes)

\* hash, compress and store `content` as an object of kind `kind`;
\* `wrote` tells whether the object file was written
StoreObject(objs, kind, content) ==
    LET data            == ObjectHeader(kind, content) \o content
        hash            == compute_sha1(data)
        compressed_data == compress_zlib(data)
        hash_str        == hash_to_hex(hash)
    IN  [hash    |-> hash_str,
         objects |-> WriteObjectFile(objs, hash_str, compressed_data),
         wrote   |-> TRUE]

create_blob(objs, content) == StoreObject(objs, "blob", content)

-----------------------------------------------------------------------------
(* repository/utils.rs *)

\* the byte of every pair of hexadecimal digits
RECURSIVE HexBytes(_)
HexBytes(hex) ==
    IF hex = <<>> THEN <<>> ELSE <<hex[1][2]>> \o HexBytes(Tail(Tail(hex)))

\* hex_to_bytes: one byte for every two hexadecimal digits
hex_to_bytes(hex) ==
    IF Len(hex) % 2 # 0 THEN Err("panic")
    ELSE IF \A k \in 1..(Len(hex) \div 2) :
                /\ hex[2*k - 1][1] = "hex hi"
                /\ hex[2*k][1] = "hex lo"
         THEN Ok(HexBytes(hex))
         ELSE Err("ParseIntError")

\* a reader that leaves the NUL of the header in the content
read_object_keeps_nul(objs, hash) ==
    IF Len(hash) < 2 THEN Err("panic")
    ELSE IF hash \notin DOMAIN objs THEN Err("NotFound")
    ELSE
      LET decoded == zlib_decode(objs[hash])
      IN  IF ~decoded.ok THEN decoded
          ELSE
            LET buffer        == decoded.val
                null_byte_pos == Position(buffer, NUL)
            IN  IF null_byte_pos = 0 THEN Err("InvalidData")
                ELSE
                  LET header  == SubSeq(buffer, 1, null_byte_pos - 1)
                      content == SubSeq(buffer, null_byte_pos, Len(buffer))
                      parts   == split_whitespace(header)
                  IN  IF Len(parts) # 2 THEN Err("InvalidData")
                      ELSE Ok([kind |-> parts[1], content |-> content])

read_object(objs, hash) ==
    IF Len(hash) < 2 THEN Err("panic")
    ELSE IF hash \notin DOMAIN objs THEN Err("NotFound")
    ELSE
      LET decoded == zlib_decode(objs[hash])
      IN  IF ~decoded.ok THEN decoded
          ELSE
            LET buffer        == decoded.val
                null_byte_pos == Position(buffer, NUL)
            IN  IF null_byte_pos = 0 THEN Err("InvalidData")
                ELSE
                  LET header  == SubSeq(buffer, 1, null_byte_pos - 1)
                      content == SubSeq(buffer, null_byte_pos + 1, Len(buffer))
                      parts   == split_whitespace(header)
                  IN  IF Len(parts) # 2 THEN Err("InvalidData")
                      ELSE Ok([kind |-> parts[1], content |-> content])

-----------------------------------------------------------------------------
(* repository/index.rs, repository/add.rs: the staging index *)

\* str::splitn(2, ' '): at most two pieces, cut at the first space
splitn2(line) ==
    LET k == Position(line, SP)
    IN  IF k = 0 THEN <<line>>
        ELSE <<SubSeq(line, 1, k - 1), SubSeq(line, k + 1, Len(line))>>

\* the entries of the index lines, a later line overwriting an earlier one
RECURSIVE IndexLines(_, _)
IndexLines(entries, ls) ==
    IF ls = <<>> THEN entries
    ELSE LET parts == splitn2(Head(ls))
         IN  IndexLines(IF Len(parts) = 2 THEN Insert(entries, parts[2], parts[1])
                        ELSE entries,
                        Tail(ls))

read_index(file) ==
    IF ~file.exists THEN Err("NotFound") ELSE Ok(IndexLines(EmptyMap, lines(file.content)))

\* one line "<hash> <path>" per entry; the order of the lines is the
\* iteration order of a HashMap, which no reader depends on
RECURSIVE WriteIndexLines(_)
WriteIndexLines(entries) ==
    IF DOMAIN entries = {} THEN <<>>
    ELSE LET path == CHOOSE p \in DOMAIN entries : TRUE
             rest == [p \in (DOMAIN entries) \ {path} |-> entries[p]]
         IN  entries[path] \o <<SP>> \o path \o <<LF>> \o WriteIndexLines(rest)

\* an update_index that does not read the entries the index file holds
update_index_only_new(file, file_path, blob_hash) ==
    File(WriteIndexLines(Insert(EmptyMap, file_path, blob_hash)))

update_index(file, file_path, blob_hash) ==
    LET index_entries == IF file.exists THEN IndexLines(EmptyMap, lines(file.content))
                         ELSE EmptyMap
    IN  File(WriteIndexLines(Insert(index_entries, file_path, blob_hash)))

-----------------------------------------------------------------------------
(* objects/tree.rs *)

\* the byte order of the tokens that occur in names
NameTokens == <<SP, Slash, <<"a.txt">>, <<"b.txt">>, <<"c.txt">>, <<"sub">>, <<"target">>>>

TokenRank(t) == Position(NameTokens, t)

\* byte-wise a < b on names (str::cmp)
RECURSIVE NameLess(_, _)
NameLess(a, b) ==
    IF b = <<>> THEN FALSE
    ELSE IF a = <<>> THEN TRUE
    ELSE IF a[1] = b[1] THEN NameLess(Tail(a), Tail(b))
    ELSE TokenRank(a[1]) < TokenRank(b[1])

\* insert e into the sorted sequence s, after the entries that are not greater
RECURSIVE InsertSorted(_, _)
InsertSorted(s, e) ==
    IF s = <<>> THEN <<e>>
    ELSE IF NameLess(e.name, s[1].name) THEN <<e>> \o s
    ELSE <<s[1]>> \o InsertSorted(Tail(s), e)

\* entries.sort_by(|a, b| a.name.cmp(&b.name)), a stable sort
RECURSIVE SortByName(_)
SortByName(entries) ==
    IF entries = <<>> THEN <<>>
    ELSE InsertSorted(SortByName(SubSeq(entries, 1, Len(entries) - 1)),
                      entries[Len(entries)])

\* an encoder that leaves out the NUL after the name
RECURSIVE TreeData_no_nul(_)
TreeData_no_nul(sorted_entries) ==
    IF sorted_entries = <<>> THEN Ok(<<>>)
    ELSE LET entry == Head(sorted_entries)
         IN  IF Len(entry.hash) # DigestLen THEN Err("InvalidData")
             ELSE IF entry.name = <<>> THEN Err("InvalidData")
             ELSE LET rest == TreeData_no_nul(Tail(sorted_entries))
                  IN  IF ~rest.ok THEN rest
                      ELSE Ok(entry.mode \o <<SP>> \o entry.name
                              \o entry.hash \o rest.val)

\* the bytes of the sorted entries, or the error of the first invalid one
RECURSIVE TreeData(_)
TreeData(sorted_entries) ==
    IF sorted_entries = <<>> THEN Ok(<<>>)
    ELSE LET entry == Head(sorted_entries)
         IN  IF Len(entry.hash) # DigestLen THEN Err("InvalidData")
             ELSE IF entry.name = <<>> THEN Err("InvalidData")
             ELSE LET rest == TreeData(Tail(sorted_entries))
                  IN  IF ~rest.ok THEN rest
                      ELSE Ok(entry.mode \o <<SP>> \o entry.name \o <<NUL>>
                              \o entry.hash \o rest.val)

create_tree(objs, entries) ==
    LET data == TreeData(SortByName(entries))
    IN  IF ~data.ok THEN [ok |-> FALSE, err |-> data.err, objects |-> objs, wrote |-> FALSE]
        ELSE LET w == StoreObject(objs, "tree", data.val)
             IN  [ok |-> TRUE, val |-> w.hash, objects |-> w.objects, wrote |-> w.wrote]

-----------------------------------------------------------------------------
(* objects/commit.rs *)

None    == [some |-> FALSE]
Some(v) == [some |-> TRUE, val |-> v]

\* a create_commit that returns the address without writing the object file
create_commit_unstored(objs, tree_hash, parent_hash, author, committer, message) ==
    LET fail    == [ok |-> FALSE, err |-> "InvalidData", objects |-> objs, wrote |-> FALSE]
        content ==
            <<<<"tree">>, SP>> \o tree_hash \o <<LF>>
            \o (IF parent_hash.some
                THEN <<<<"parent">>, SP>> \o parent_hash.val \o <<LF>> ELSE <<>>)
            \o <<<<"author">>, SP>> \o author \o <<LF>>
            \o <<<<"committer">>, SP>> \o committer \o <<LF>>
            \o <<LF>> \o message \o <<LF>>
    IN  IF Len(tree_hash) # HexLen THEN fail
        ELSE IF parent_hash.some /\ Len(parent_hash.val) # HexLen THEN fail
        ELSE IF author = <<>> THEN fail
        ELSE IF committer = <<>> THEN fail
        ELSE IF message = <<>> THEN fail
        ELSE LET w == StoreObject(objs, "commit", content)
             IN  [ok |-> TRUE, val |-> w.hash, objects |-> objs, wrote |-> FALSE,
                  content |-> content]

\* a create_commit that does not look at the message
create_commit_any_message(objs, tree_hash, parent_hash, author, committer, message) ==
    LET fail    == [ok |-> FALSE, err |-> "InvalidData", objects |-> objs, wrote |-> FALSE]
        content ==
            <<<<"tree">>, SP>> \o tree_hash \o <<LF>>
            \o (IF parent_hash.some
                THEN <<<<"parent">>, SP>> \o parent_hash.val \o <<LF>> ELSE <<>>)
            \o <<<<"author">>, SP>> \o author \o <<LF>>
            \o <<<<"committer">>, SP>> \o committer \o <<LF>>
            \o <<LF>> \o message \o <<LF>>
    IN  IF Len(tree_hash) # HexLen THEN fail
        ELSE IF parent_hash.some /\ Len(parent_hash.val) # HexLen THEN fail
        ELSE IF author = <<>> THEN fail
        ELSE IF committer = <<>> THEN fail
        ELSE LET w == StoreObject(objs, "commit", content)
             IN  [ok |-> TRUE, val |-> w.hash, objects |-> w.objects, wrote |-> w.wrote,
                  content |-> content]

create_commit(objs, tree_hash, parent_hash, author, committer, message) ==
    LET fail    == [ok |-> FALSE, err |-> "InvalidData", objects |-> objs, wrote |-> FALSE]
        content ==
            <<<<"tree">>, SP>> \o tree_hash \o <<LF>>
            \o (IF parent_hash.some
                THEN <<<<"parent">>, SP>> \o parent_hash.val \o <<LF>> ELSE <<>>)
            \o <<<<"author">>, SP>> \o author \o <<LF>>
            \o <<<<"committer">>, SP>> \o committer \o <<LF>>
            \o <<LF>> \o message \o <<LF>>
    IN  IF Len(tree_hash) # HexLen THEN fail
        ELSE IF parent_hash.some /\ Len(parent_hash.val) # HexLen THEN fail
        ELSE IF author = <<>> THEN fail
        ELSE IF committer = <<>> THEN fail
        ELSE IF message = <<>> THEN fail
        ELSE LET w == StoreObject(objs, "commit", content)
             IN  [ok |-> TRUE, val |-> w.hash, objects |-> w.objects, wrote |-> w.wrote,
                  content |-> content]

-----------------------------------------------------------------------------
(* objects/read.rs *)

get_commit_tree_hash(objs, commit_hash) ==
    LET obj == read_object(objs, commit_hash)
    IN  IF ~obj.ok THEN obj
        ELSE IF obj.val.kind # <<<<"commit">>>> THEN Err("InvalidData")
        ELSE LET ls    == lines(obj.val.content)
                 tree  == <<<<"tree">>, SP>>
                 found == {i \in 1..Len(ls) : StartsWith(ls[i], tree)}
             IN  IF found = {} THEN Err("InvalidData")
                 ELSE LET i == CHOOSE i \in found : \A j \in found : i <= j
                      IN  Ok(SubSeq(ls[i], 3, Len(ls[i])))

\* the mode starts with "100": a regular file
ModeIsBlob(mode) == mode # <<>> /\ mode[1] \in {<<"100644">>, <<"100755">>}

RECURSIVE list_files_recursive(_, _, _, _)
RECURSIVE TreeEntriesFrom(_, _, _, _, _)

\* the loop of list_files_recursive over `content`, from `cursor` (1-based)
TreeEntriesFrom(objs, content, cursor, current_path, files) ==
    IF cursor > Len(content) THEN Ok(files)
    ELSE
      LET rest      == SubSeq(content, cursor, Len(content))
          space_rel == Position(rest, SP)
          null_rel  == Position(rest, NUL)
      IN  IF space_rel = 0 THEN Err("InvalidData")
          ELSE IF null_rel = 0 THEN Err("InvalidData")
          ELSE
            LET space_pos == space_rel + cursor - 1
                null_pos  == null_rel + cursor - 1
            IN  IF space_pos + 1 > null_pos THEN Err("panic")
                ELSE IF null_pos + DigestLen > Len(content) THEN Err("panic")
                ELSE
                  LET name     == SubSeq(content, space_pos + 1, null_pos - 1)
                      hash_hex == hash_to_hex(SubSeq(content, null_pos + 1, null_pos + DigestLen))
                      path     == IF current_path = <<>> THEN name
                                  ELSE current_path \o <<Slash>> \o name
                      mode     == SubSeq(content, cursor, space_pos - 1)
                      next     == null_pos + DigestLen + 1
                  IN  IF ModeIsBlob(mode)
                      THEN TreeEntriesFrom(objs, content, next, current_path,
                                           Insert(files, path, hash_hex))
                      ELSE LET sub == list_files_recursive(objs, hash_hex, path, files)
                           IN  IF ~sub.ok THEN sub
                               ELSE TreeEntriesFrom(objs, content, next, current_path, sub.val)

list_files_recursive(objs, tree_hash, current_path, files) ==
    LET obj == read_object(objs, tree_hash)
    IN  IF ~obj.ok THEN obj
        ELSE IF obj.val.kind # <<<<"tree">>>> THEN Err("InvalidData")
        ELSE TreeEntriesFrom(objs, obj.val.content, 1, current_path, files)

list_files_in_tree(objs, tree_hash) == list_files_recursive(objs, tree_hash, <<>>, EmptyMap)

\* the entries the loop of list_files_recursive reads from `content`, from
\* `cursor` on: the mode, the name and the address in hexadecimal of each
RECURSIVE TreeEntriesScan(_, _)
TreeEntriesScan(content, cursor) ==
    IF cursor > Len(content) THEN Ok(<<>>)
    ELSE
      LET rest      == SubSeq(content, cursor, Len(content))
          space_rel == Position(rest, SP)
          null_rel  == Position(rest, NUL)
      IN  IF space_rel = 0 THEN Err("InvalidData")
          ELSE IF null_rel = 0 THEN Err("InvalidData")
          ELSE
            LET space_pos == space_rel + cursor - 1
                null_pos  == null_rel + cursor - 1
            IN  IF space_pos + 1 > null_pos THEN Err("panic")
                ELSE IF null_pos + DigestLen > Len(content) THEN Err("panic")
                ELSE
                  LET entry == [mode |-> SubSeq(content, cursor, space_pos - 1),
                                name |-> SubSeq(content, space_pos + 1, null_pos - 1),
                                hash_hex |-> hash_to_hex(SubSeq(content, null_pos + 1,
                                                                null_pos + DigestLen))]
                      more  == TreeEntriesScan(content, null_pos + DigestLen + 1)
                  IN  IF ~more.ok THEN more ELSE Ok(<<entry>> \o more.val)

\* the entries of the tree object at tree_hash, as list_files_recursive
\* reads them
read_tree_entries(objs, tree_hash) ==
    LET obj == read_object(objs, tree_hash)
    IN  IF ~obj.ok THEN obj
        ELSE IF obj.val.kind # <<<<"tree">>>> THEN Err("InvalidData")
        ELSE TreeEntriesScan(obj.val.content, 1)

-----------------------------------------------------------------------------
(* repository/refs.rs *)

\* a reference path below a root, as text
RefsHeads == <<<<"refs">>, Slash, <<"heads">>, Slash>>
RefsTags  == <<<<"refs">>, Slash, <<"tags">>, Slash>>
MainRef   == RefsHeads \o <<<<"main">>>>

\* the file `path` below the root whose reference files are `refs`
RefFile(refs, path) == IF path \in DOMAIN refs THEN File(refs[path]) ELSE NoFile

get_head_ref_path(headFile) ==
    IF ~headFile.exists THEN Err("NotFound")
    ELSE LET words == split_whitespace(trim(headFile.content))
         IN  Ok(IF words = <<>> THEN <<>> ELSE words[Len(words)])

get_commit_hash(xrefs, ref_path) ==
    IF ref_path = <<>> THEN Err("NotFound")
    ELSE LET f == RefFile(xrefs, ref_path)
         IN  IF ~f.exists THEN Err("NotFound") ELSE Ok(trim(f.content))

-----------------------------------------------------------------------------
(* objects/update.rs *)

\* an update_reference that does not check the characters of the address
update_reference_any_characters(xit, xrefs, grefs, ref_path, commit_hash) ==
    LET fail(e) == [ok |-> FALSE, err |-> e, xitRefs |-> xrefs, gitRefs |-> grefs]
    IN  IF ref_path = <<>> THEN fail("InvalidInput")
        ELSE IF Len(commit_hash) # HexLen THEN fail("InvalidData")
        ELSE IF ~xit THEN fail("NotFound")
        ELSE [ok |-> TRUE, xitRefs |-> xrefs,
              gitRefs |-> Insert(grefs, ref_path, commit_hash \o <<LF>>)]

\* writes the reference file .git/<ref_path>
update_reference(xit, xrefs, grefs, ref_path, commit_hash) ==
    LET fail(e) == [ok |-> FALSE, err |-> e, xitRefs |-> xrefs, gitRefs |-> grefs]
    IN  IF ref_path = <<>> THEN fail("InvalidInput")
        ELSE IF Len(commit_hash) # HexLen THEN fail("InvalidData")
        ELSE IF \E i \in 1..Len(commit_hash) : ~is_ascii_hexdigit(commit_hash[i])
             THEN fail("InvalidData")
        ELSE IF ~xit THEN fail("NotFound")
        ELSE [ok |-> TRUE, xitRefs |-> xrefs,
              gitRefs |-> Insert(grefs, ref_path, commit_hash \o <<LF>>)]

InvalidNameChars ==
    {Slash, <<"\\">>, <<":">>, <<"*">>, <<"?">>, <<"\"">>, <<"<">>, <<">">>, <<"|">>, SP}

ReservedNames ==
    {<<<<"HEAD">>>>, <<<<"ORIGIN_HEAD">>>>, <<<<"FETCH_HEAD">>>>, <<<<"MERGE_HEAD">>>>}

update_branch(xit, xrefs, grefs, branch_name, commit_hash) ==
    LET fail(e) == [ok |-> FALSE, err |-> e, xitRefs |-> xrefs, gitRefs |-> grefs]
    IN  IF branch_name = <<>> THEN fail("InvalidInput")
        ELSE IF \E i \in 1..Len(branch_name) : branch_name[i] \in InvalidNameChars
             THEN fail("InvalidInput")
        ELSE IF branch_name \in ReservedNames THEN fail("InvalidInput")
        ELSE update_reference(xit, xrefs, grefs, RefsHeads \o branch_name, commit_hash)

update_tag(xit, xrefs, grefs, tag_name, commit_hash) ==
    LET fail(e) == [ok |-> FALSE, err |-> e, xitRefs |-> xrefs, gitRefs |-> grefs]
    IN  IF tag_name = <<>> THEN fail("InvalidInput")
        ELSE IF \E i \in 1..Len(tag_name) : tag_name[i] \in InvalidNameChars
             THEN fail("InvalidInput")
        ELSE update_reference(xit, xrefs, grefs, RefsTags \o tag_name, commit_hash)

create_branch(xit, xrefs, grefs, branch_name, commit_hash) ==
    IF (RefsHeads \o branch_name) \in DOMAIN xrefs
    THEN [ok |-> FALSE, err |-> "AlreadyExists", xitRefs |-> xrefs, gitRefs |-> grefs]
    ELSE update_branch(xit, xrefs, grefs, branch_name, commit_hash)

create_tag(xit, xrefs, grefs, tag_name, commit_hash) ==
    IF (RefsTags \o tag_name) \in DOMAIN xrefs
    THEN [ok |-> FALSE, err |-> "AlreadyExists", xitRefs |-> xrefs, gitRefs |-> grefs]
    ELSE update_tag(xit, xrefs, grefs, tag_name, commit_hash)

\* fs::remove_file of a reference file
RemoveRef(refs, path) == [p \in (DOMAIN refs) \ {path} |-> refs[p]]

delete_branch(xrefs, grefs, branch_name) ==
    LET fail(e) == [ok |-> FALSE, err |-> e, xitRefs |-> xrefs, gitRefs |-> grefs]
    IN  IF branch_name = <<>> THEN fail("InvalidInput")
        ELSE IF (RefsHeads \o branch_name) \notin DOMAIN xrefs THEN fail("NotFound")
        ELSE [ok |-> TRUE, xitRefs |-> RemoveRef(xrefs, RefsHeads \o branch_name),
              gitRefs |-> grefs]

delete_tag(xrefs, grefs, tag_name) ==
    LET fail(e) == [ok |-> FALSE, err |-> e, xitRefs |-> xrefs, gitRefs |-> grefs]
    IN  IF tag_name = <<>> THEN fail("InvalidInput")
        ELSE IF (RefsTags \o tag_name) \notin DOMAIN xrefs THEN fail("NotFound")
        ELSE [ok |-> TRUE, xitRefs |-> RemoveRef(xrefs, RefsTags \o tag_name),
              gitRefs |-> grefs]

read_reference(grefs, ref_path) ==
    IF ref_path = <<>> THEN Err("InvalidInput")
    ELSE IF ref_path \notin DOMAIN grefs THEN Err("NotFound")
    ELSE LET commit_hash == trim_end_newlines(grefs[ref_path])
         IN  IF Len(commit_hash) # HexLen THEN Err("InvalidData")
             ELSE IF \E i \in 1..Len(commit_hash) : ~is_ascii_hexdigit(commit_hash[i])
                  THEN Err("InvalidData")
             ELSE Ok(commit_hash)

\* the names of the files directly below .git/refs/heads (sorted by the caller)
list_branches(grefs) ==
    {SubSeq(p, Len(RefsHeads) + 1, Len(p)) :
        p \in {q \in DOMAIN grefs : StartsWith(q, RefsHeads) /\ Len(q) = Len(RefsHeads) + 1}}

-----------------------------------------------------------------------------
(* repository/config.rs *)

HasAt(text) == \E i \in 1..Len(text) : text[i] = <<"@">>

\* the new $HOME/.xit/config, or the validation error
setup_global_user(name, email) ==
    IF trim(name) = <<>> THEN Err("InvalidInput")
    ELSE IF trim(email) = <<>> THEN Err("InvalidInput")
    ELSE IF ~HasAt(email) THEN Err("InvalidInput")
    ELSE Ok(File([name |-> trim(name), email |-> trim(email)]))

\* the local .xit/config written by init holds no [user] section, so the
\* identity is the one of the global file
get_user_config(global) ==
    IF global.exists THEN Ok(global.content) ELSE Err("NotFound")

-----------------------------------------------------------------------------
(* repository/status.rs *)

DotXit       == <<".xit">>
DotGit       == <<".git">>
IgnoreFile   == <<<<".xitignore">>>>

\* every regular file below the current directory: relative path -> content
WorkingTree(wdir, xi, xit, headFile, indexFile, grefs) ==
    LET user  == {p \in DOMAIN wdir : wdir[p].exists}
        ign   == IF xi.exists THEN {IgnoreFile} ELSE {}
        hd    == IF xit /\ headFile.exists THEN {<<DotXit, Slash, <<"HEAD">>>>} ELSE {}
        idx   == IF xit /\ indexFile.exists THEN {<<DotXit, Slash, <<"index">>>>} ELSE {}
        git   == {<<DotGit, Slash>> \o r : r \in DOMAIN grefs}
    IN  [p \in user \cup ign \cup hd \cup idx \cup git |->
            IF p \in user THEN wdir[p].content
            ELSE IF p \in ign THEN xi.content
            ELSE IF p \in hd THEN headFile.content
            ELSE IF p \in idx THEN indexFile.content
            ELSE grefs[SubSeq(p, 3, Len(p))]]

\* the path walkdir yields for a file below "."
WalkPath(p) == <<<<".">>, Slash>> \o p

\* Path::components, each component as text
components(path) == split(path, Slash)

get_index_entries(indexFile) ==
    IF indexFile.exists THEN read_index(indexFile) ELSE Ok(EmptyMap)

get_head_tree_entries(headFile, xrefs, objs) ==
    LET head_ref_path == get_head_ref_path(headFile)
    IN  IF ~head_ref_path.ok THEN Ok(EmptyMap)
        ELSE LET head_commit_hash == get_commit_hash(xrefs, head_ref_path.val)
             IN  IF ~head_commit_hash.ok THEN Ok(EmptyMap)
                 ELSE LET tree_hash == get_commit_tree_hash(objs, head_commit_hash.val)
                      IN  IF ~tree_hash.ok
                          THEN IF tree_hash.err = "panic" THEN tree_hash ELSE Ok(EmptyMap)
                          ELSE list_files_in_tree(objs, tree_hash.val)

\* a comparison that leaves out the pass over the HEAD entries
get_staged_changes_no_deletions(index_entries, head_tree_entries) ==
    LET changed == {p \in DOMAIN index_entries :
                        \/ p \notin DOMAIN head_tree_entries
                        \/ head_tree_entries[p] # index_entries[p]}
    IN  [p \in changed |->
            IF p \in DOMAIN head_tree_entries THEN "modified" ELSE "new file"]

get_staged_changes(index_entries, head_tree_entries) ==
    LET changed == {p \in DOMAIN index_entries :
                        \/ p \notin DOMAIN head_tree_entries
                        \/ head_tree_entries[p] # index_entries[p]}
        deleted == {p \in DOMAIN head_tree_entries : p \notin DOMAIN index_entries}
    IN  [p \in changed \cup deleted |->
            IF p \in deleted THEN "deleted"
            ELSE IF p \in DOMAIN head_tree_entries THEN "modified"
            ELSE "new file"]

read_ignore_file(file) ==
    {<<DotXit>>, <<DotGit>>, <<<<"target">>>>} \cup
    (IF ~file.exists THEN {}
     ELSE LET ls == lines(file.content)
          IN  {trim(ls[i]) : i \in {j \in 1..Len(ls) :
                                      trim(ls[j]) # <<>> /\ ~StartsWith(ls[j], <<<<"#">>>>)}})

\* a test that looks at the file name only
is_ignored_file_name(path, ignore_patterns) ==
    LET cs == components(path)
    IN  cs[Len(cs)] \in ignore_patterns

is_ignored(path, ignore_patterns) ==
    LET cs == components(path)
    IN  \E i \in 1..Len(cs) : cs[i] \in ignore_patterns

\* path.strip_prefix("./").unwrap_or(path)
path_to_string(path) ==
    IF StartsWith(path, <<<<".">>, Slash>>) THEN SubSeq(path, 3, Len(path)) ELSE path

\* the hash status computes for the content of a working file
WorkingHash(content_bytes) ==
    LET normalized_content == replace_crlf(content_bytes)
    IN  hash_to_hex(compute_sha1(normalized_content))

get_unstaged_and_untracked(index_entries, ignore_patterns, tree) ==
    LET walked   == {e \in {WalkPath(p) : p \in DOMAIN tree} : ~is_ignored(e, ignore_patterns)}
        working_dir_files == {path_to_string(e) : e \in walked}
        modified == {p \in working_dir_files :
                        p \in DOMAIN index_entries /\ WorkingHash(tree[p]) # index_entries[p]}
        deleted  == {p \in DOMAIN index_entries : p \notin working_dir_files}
    IN  [unstaged  |-> [p \in modified \cup deleted |->
                            IF p \in deleted THEN "deleted" ELSE "modified"],
         untracked |-> {p \in working_dir_files : p \notin DOMAIN index_entries}]

\* check_status, given the three snapshots and the ignore patterns
StatusOf(index_entries, head_tree_entries, ignore_patterns, tree) ==
    LET uu     == get_unstaged_and_untracked(index_entries, ignore_patterns, tree)
        staged == get_staged_changes(index_entries, head_tree_entries)
    IN  [staged    |-> staged,
         unstaged  |-> uu.unstaged,
         untracked |-> uu.untracked \ DOMAIN staged]

check_status(indexFile, headFile, xrefs, objs, xi, tree) ==
    LET index_entries     == get_index_entries(indexFile)
        head_tree_entries == get_head_tree_entries(headFile, xrefs, objs)
    IN  IF ~index_entries.ok THEN index_entries
        ELSE IF ~head_tree_entries.ok THEN head_tree_entries
        ELSE Ok(StatusOf(index_entries.val, head_tree_entries.val,
                         read_ignore_file(xi), tree))

-----------------------------------------------------------------------------
(* repository/commit.rs *)

\* tree entries that are named by the last component of the staged path
RECURSIVE IndexTreeEntries_file_name(_)
IndexTreeEntries_file_name(entries) ==
    IF DOMAIN entries = {} THEN Ok(<<>>)
    ELSE LET path       == CHOOSE p \in DOMAIN entries : TRUE
             hash_bytes == hex_to_bytes(entries[path])
             rest       == IndexTreeEntries_file_name(
                               [p \in (DOMAIN entries) \ {path} |-> entries[p]])
             parts      == components(path)
         IN  IF ~hash_bytes.ok
             THEN Err(IF hash_bytes.err = "panic" THEN "panic" ELSE "InvalidData")
             ELSE IF ~rest.ok THEN rest
             ELSE Ok(<<[mode     |-> <<<<"100644">>>>,
                        obj_type |-> "blob",
                        hash     |-> hash_bytes.val,
                        name     |-> parts[Len(parts)]]>> \o rest.val)

\* one tree entry per index entry, in the iteration order of the HashMap
\* (create_tree sorts them), or the first conversion error
RECURSIVE IndexTreeEntries(_)
IndexTreeEntries(entries) ==
    IF DOMAIN entries = {} THEN Ok(<<>>)
    ELSE LET path       == CHOOSE p \in DOMAIN entries : TRUE
             hash_bytes == hex_to_bytes(entries[path])
             rest       == IndexTreeEntries([p \in (DOMAIN entries) \ {path} |-> entries[p]])
         IN  IF ~hash_bytes.ok
             THEN Err(IF hash_bytes.err = "panic" THEN "panic" ELSE "InvalidData")
             ELSE IF ~rest.ok THEN rest
             ELSE Ok(<<[mode     |-> <<<<"100644">>>>,
                        obj_type |-> "blob",
                        hash     |-> hash_bytes.val,
                        name     |-> path]>> \o rest.val)

create_tree_from_index(objs, entries) ==
    LET tree_entries == IndexTreeEntries(entries)
    IN  IF ~tree_entries.ok
        THEN [ok |-> FALSE, err |-> tree_entries.err, objects |-> objs, wrote |-> FALSE]
        ELSE create_tree(objs, tree_entries.val)

\* the text "<name> <<email>>"
AuthorOf(user_config) == user_config.name \o <<SP, <<"<">>>> \o user_config.email \o <<<<">">>>>

\* a commit command that does not stop on an index without entries
commit_without_empty_check(xit, headFile, xrefs, grefs, objs, indexFile, global, message) ==
    LET leave(ok, err, o, tree, wroteTree) ==
            [ok |-> ok, err |-> err, objects |-> o, gitRefs |-> grefs, index |-> indexFile,
             tree |-> tree, commit |-> None, parent |-> None,
             wroteTree |-> wroteTree, wroteCommit |-> FALSE]
    IN
    IF ~indexFile.exists THEN leave(FALSE, "NotFound", objs, None, FALSE)
    ELSE
    LET index_entries == read_index(indexFile).val
    IN
    LET tree_hash == create_tree_from_index(objs, index_entries)
    IN
    IF ~tree_hash.ok THEN leave(FALSE, tree_hash.err, objs, None, FALSE)
    ELSE
    LET head_ref_path == get_head_ref_path(headFile)
        t             == Some(tree_hash.val)
    IN
    IF ~head_ref_path.ok THEN leave(FALSE, head_ref_path.err, tree_hash.objects, t, tree_hash.wrote)
    ELSE
    LET got         == get_commit_hash(xrefs, head_ref_path.val)
        parent_hash == IF got.ok THEN Some(got.val) ELSE None
        user_config == get_user_config(global)
    IN
    IF ~user_config.ok THEN leave(FALSE, user_config.err, tree_hash.objects, t, tree_hash.wrote)
    ELSE
    LET author          == AuthorOf(user_config.val)
        new_commit_hash == create_commit(tree_hash.objects, tree_hash.val, parent_hash,
                                         author, author, message)
    IN
    IF ~new_commit_hash.ok
    THEN leave(FALSE, new_commit_hash.err, tree_hash.objects, t, tree_hash.wrote)
    ELSE
    LET updated == update_reference(xit, xrefs, grefs, head_ref_path.val, new_commit_hash.val)
    IN
    [ok          |-> updated.ok,
     err         |-> IF updated.ok THEN "" ELSE updated.err,
     objects     |-> new_commit_hash.objects,
     gitRefs     |-> updated.gitRefs,
     index       |-> IF updated.ok THEN NoFile ELSE indexFile,
     tree        |-> t,
     commit      |-> Some(new_commit_hash.val),
     parent      |-> parent_hash,
     wroteTree   |-> tree_hash.wrote,
     wroteCommit |-> new_commit_hash.wrote]

\* a commit command that removes the index before it updates the reference
commit_clears_index_first(xit, headFile, xrefs, grefs, objs, indexFile, global, message) ==
    LET leave(ok, err, o, tree, wroteTree) ==
            [ok |-> ok, err |-> err, objects |-> o, gitRefs |-> grefs, index |-> indexFile,
             tree |-> tree, commit |-> None, parent |-> None,
             wroteTree |-> wroteTree, wroteCommit |-> FALSE]
    IN
    IF ~indexFile.exists THEN leave(FALSE, "NotFound", objs, None, FALSE)
    ELSE
    LET index_entries == read_index(indexFile).val
    IN
    IF DOMAIN index_entries = {} THEN leave(TRUE, "", objs, None, FALSE)
    ELSE
    LET tree_hash == create_tree_from_index(objs, index_entries)
    IN
    IF ~tree_hash.ok THEN leave(FALSE, tree_hash.err, objs, None, FALSE)
    ELSE
    LET head_ref_path == get_head_ref_path(headFile)
        t             == Some(tree_hash.val)
    IN
    IF ~head_ref_path.ok THEN leave(FALSE, head_ref_path.err, tree_hash.objects, t, tree_hash.wrote)
    ELSE
    LET got         == get_commit_hash(xrefs, head_ref_path.val)
        parent_hash == IF got.ok THEN Some(got.val) ELSE None
        user_config == get_user_config(global)
    IN
    IF ~user_config.ok THEN leave(FALSE, user_config.err, tree_hash.objects, t, tree_hash.wrote)
    ELSE
    LET author          == AuthorOf(user_config.val)
        new_commit_hash == create_commit(tree_hash.objects, tree_hash.val, parent_hash,
                                         author, author, message)
    IN
    IF ~new_commit_hash.ok
    THEN leave(FALSE, new_commit_hash.err, tree_hash.objects, t, tree_hash.wrote)
    ELSE
    LET updated == update_reference(xit, xrefs, grefs, head_ref_path.val, new_commit_hash.val)
    IN
    [ok          |-> updated.ok,
     err         |-> IF updated.ok THEN "" ELSE updated.err,
     objects     |-> new_commit_hash.objects,
     gitRefs     |-> updated.gitRefs,
     index       |-> NoFile,
     tree        |-> t,
     commit      |-> Some(new_commit_hash.val),
     parent      |-> parent_hash,
     wroteTree   |-> tree_hash.wrote,
     wroteCommit |-> new_commit_hash.wrote]

\* the whole commit command: what it returns, the files it leaves behind,
\* the objects it made (tree, commit), the parent it found, and whether it
\* wrote the object files (wroteTree, wroteCommit)
commit(xit, headFile, xrefs, grefs, objs, indexFile, global, message) ==
    LET leave(ok, err, o, tree, wroteTree) ==
            [ok |-> ok, err |-> err, objects |-> o, gitRefs |-> grefs, index |-> indexFile,
             tree |-> tree, commit |-> None, parent |-> None,
             wroteTree |-> wroteTree, wroteCommit |-> FALSE]
    IN
    IF ~indexFile.exists THEN leave(FALSE, "NotFound", objs, None, FALSE)
    ELSE
    LET index_entries == read_index(indexFile).val
    IN
    IF DOMAIN index_entries = {} THEN leave(TRUE, "", objs, None, FALSE)
    ELSE
    LET tree_hash == create_tree_from_index(objs, index_entries)
    IN
    IF ~tree_hash.ok THEN leave(FALSE, tree_hash.err, objs, None, FALSE)
    ELSE
    LET head_ref_path == get_head_ref_path(headFile)
        t             == Some(tree_hash.val)
    IN
    IF ~head_ref_path.ok THEN leave(FALSE, head_ref_path.err, tree_hash.objects, t, tree_hash.wrote)
    ELSE
    LET got         == get_commit_hash(xrefs, head_ref_path.val)
        parent_hash == IF got.ok THEN Some(got.val) ELSE None
        user_config == get_user_config(global)
    IN
    IF ~user_config.ok THEN leave(FALSE, user_config.err, tree_hash.objects, t, tree_hash.wrote)
    ELSE
    LET author          == AuthorOf(user_config.val)
        new_commit_hash == create_commit(tree_hash.objects, tree_hash.val, parent_hash,
                                         author, author, message)
    IN
    IF ~new_commit_hash.ok
    THEN leave(FALSE, new_commit_hash.err, tree_hash.objects, t, tree_hash.wrote)
    ELSE
    LET updated == update_reference(xit, xrefs, grefs, head_ref_path.val, new_commit_hash.val)
    IN
    [ok          |-> updated.ok,
     err         |-> IF updated.ok THEN "" ELSE updated.err,
     objects     |-> new_commit_hash.objects,
     gitRefs     |-> updated.gitRefs,
     index       |-> IF updated.ok THEN NoFile ELSE indexFile,
     tree        |-> t,
     commit      |-> Some(new_commit_hash.val),
     parent      |-> parent_hash,
     wroteTree   |-> tree_hash.wrote,
     wroteCommit |-> new_commit_hash.wrote]

-----------------------------------------------------------------------------
(* repository/repo.rs *)

HeadContent == <<<<"ref:">>, SP>> \o MainRef \o <<LF>>

-----------------------------------------------------------------------------
(* The inputs of the commands *)

FileA == <<<<"a.txt">>>>
FileC == <<<<"target">>, Slash, <<"c.txt">>>>

Paths == {FileA, FileC}

TextCRLF == <<<<"x">>, CR, LF>>
TextNUL  == <<NUL, <<"y">>>>

Contents == {TextCRLF, TextNUL}

\* the contents the user gives to each file
FileInputs == {<<FileA, TextCRLF>>, <<FileA, TextNUL>>, <<FileC, TextCRLF>>}

\* a comment, an empty line and the pattern a.txt
IgnoreContent == <<<<"#">>, <<"sub">>, LF, LF, SP, <<"a.txt">>, SP, CR, LF>>

Messages == { <<>>, <<<<"msg">>>> }

UserName   == <<<<"Test">>, SP, <<"User">>>>
UserEmails == { <<<<"test">>, <<"@">>, <<"example.com">>>>, <<<<"test">>>> }

BranchNames == { <<<<"dev">>>>, <<<<"HEAD">>>> }
TagNames    == { <<<<"v1">>>> }

\* a commit address that is too short
ShortHash == <<<<"hex hi", <<"sha1 pad">>>>, <<"hex lo">>>>

-----------------------------------------------------------------------------
(* The commands *)

\* the objects of the store whose header names `kind`
ObjectsOfKind(objs, kind) ==
    {h \in DOMAIN objs : objs[h][2] = <<kind>>}

Init ==
    /\ xitDir = FALSE
    /\ head = NoFile
    /\ xitRefs = EmptyMap
    /\ gitRefs = EmptyMap
    /\ objects = EmptyMap
    /\ index = NoFile
    /\ wd = [p \in Paths |-> NoFile]
    /\ xitignore = NoFile
    /\ globalUser = NoFile
    /\ lastOp = [op |-> "none"]
    /\ lastCommit = None
    /\ headFiles = EmptyMap

\* xit init (create_repository)
InitRepo ==
    /\ IF xitDir
       THEN UNCHANGED <<xitDir, head>>
       ELSE /\ xitDir' = TRUE
            /\ head' = File(HeadContent)
    /\ lastOp' = [op |-> "init"]
    /\ UNCHANGED <<xitRefs, gitRefs, objects, index, wd, xitignore, globalUser,
                   lastCommit, headFiles>>

\* xit setup (setup_global_user)
Setup(name, email) ==
    \E r \in {setup_global_user(name, email)} :
        /\ globalUser' = IF r.ok THEN r.val ELSE globalUser
        /\ lastOp' = [op |-> "setup", ok |-> r.ok]
        /\ UNCHANGED <<xitDir, head, xitRefs, gitRefs, objects, index, wd, xitignore,
                       lastCommit, headFiles>>

\* the user writes a file of the working directory
WriteFile(p, c) ==
    /\ wd[p] # File(c)
    /\ wd' = [wd EXCEPT ![p] = File(c)]
    /\ lastOp' = [op |-> "edit"]
    /\ UNCHANGED <<xitDir, head, xitRefs, gitRefs, objects, index, xitignore, globalUser,
                   lastCommit, headFiles>>

\* the user removes a file of the working directory
RemoveFile(p) ==
    /\ wd[p].exists
    /\ wd' = [wd EXCEPT ![p] = NoFile]
    /\ lastOp' = [op |-> "edit"]
    /\ UNCHANGED <<xitDir, head, xitRefs, gitRefs, objects, index, xitignore, globalUser,
                   lastCommit, headFiles>>

\* the user writes .xitignore
WriteIgnore(c) ==
    /\ xitignore # File(c)
    /\ xitignore' = File(c)
    /\ lastOp' = [op |-> "edit"]
    /\ UNCHANGED <<xitDir, head, xitRefs, gitRefs, objects, index, wd, globalUser,
                   lastCommit, headFiles>>

\* xit add <p> (add)
Add(p) ==
    /\ IF ~xitDir
       THEN /\ lastOp' = [op |-> "add", ok |-> FALSE, err |-> "NotFound", path |-> p]
            /\ UNCHANGED <<objects, index>>
       ELSE IF ~wd[p].exists
       THEN /\ lastOp' = [op |-> "add", ok |-> FALSE, err |-> "NotFound", path |-> p]
            /\ UNCHANGED <<objects, index>>
       ELSE \E blob \in {create_blob(objects, wd[p].content)} :
                /\ objects' = blob.objects
                /\ index' = update_index(index, p, blob.hash)
                /\ lastOp' = [op |-> "add", ok |-> TRUE, path |-> p, content |-> wd[p].content,
                              hash |-> blob.hash, wrote |-> blob.wrote]
    /\ UNCHANGED <<xitDir, head, xitRefs, gitRefs, wd, xitignore, globalUser,
                   lastCommit, headFiles>>

\* xit commit -m <message> (commit)
Commit(message) ==
    \E r \in {commit(xitDir, head, xitRefs, gitRefs, objects, index, globalUser, message)} :
        /\ Cardinality(ObjectsOfKind(r.objects, "tree")) <= MaxTrees
        /\ objects' = r.objects
        /\ gitRefs' = r.gitRefs
        /\ index' = r.index
        /\ lastCommit' = IF r.ok /\ r.commit.some THEN r.commit ELSE lastCommit
        /\ lastOp' = [op |-> "commit", ok |-> r.ok, err |-> r.err, message |-> message,
                      tree |-> r.tree, commit |-> r.commit, parent |-> r.parent,
                      wroteTree |-> r.wroteTree, wroteCommit |-> r.wroteCommit]
        /\ UNCHANGED <<xitDir, head, xitRefs, wd, xitignore, globalUser, headFiles>>

\* xit status (check_status)
Status ==
    /\ lastOp' = [op |-> "status",
                  result |-> check_status(index, head, xitRefs, objects, xitignore,
                                          WorkingTree(wd, xitignore, xitDir, head, index, gitRefs))]
    /\ UNCHANGED <<xitDir, head, xitRefs, gitRefs, objects, index, wd, xitignore,
                   globalUser, lastCommit, headFiles>>

\* the commit addresses a caller passes to the reference commands
HashInputs == {ShortHash} \cup (IF lastCommit.some THEN {lastCommit.val} ELSE {})

\* a reference command that returns r
RefCommand(name, r) ==
    /\ xitRefs' = r.xitRefs
    /\ gitRefs' = r.gitRefs
    /\ lastOp' = [op |-> name, ok |-> r.ok, err |-> IF r.ok THEN "" ELSE r.err]
    /\ UNCHANGED <<xitDir, head, objects, index, wd, xitignore, globalUser,
                   lastCommit, headFiles>>

CreateBranch(name, hash) ==
    \E r \in {create_branch(xitDir, xitRefs, gitRefs, name, hash)} : RefCommand("create_branch", r)

DeleteBranch(name) ==
    \E r \in {delete_branch(xitRefs, gitRefs, name)} : RefCommand("delete_branch", r)

CreateTag(name, hash) ==
    \E r \in {create_tag(xitDir, xitRefs, gitRefs, name, hash)} : RefCommand("create_tag", r)

DeleteTag(name) ==
    \E r \in {delete_tag(xitRefs, gitRefs, name)} : RefCommand("delete_tag", r)

\* the commands that read or write the object store, the index and the
\* references of HEAD; the pattern file is varied under StatusSpec
Next ==
    \/ InitRepo
    \/ \E e \in UserEmails : Setup(UserName, e)
    \/ \E f \in FileInputs : WriteFile(f[1], f[2])
    \/ \E p \in Paths : RemoveFile(p)
    \/ \E p \in Paths : Add(p)
    \/ \E m \in Messages : Commit(m)
    \/ Status
    \/ \E n \in BranchNames : DeleteBranch(n)
    \/ \E n \in TagNames : DeleteTag(n)

Spec == Init /\ [][Next]_vars

-----------------------------------------------------------------------------
(* The status functions on arbitrary snapshots.  The commands above never  *)
(* leave a commit that HEAD resolves to, so the functions that compare the *)
(* HEAD file map, the index and the working directory are also applied to  *)
(* snapshots drawn from bounded sets.                                      *)

\* the addresses that occur in the snapshots: what add stores for either
\* content, and what status computes for the second content
StatusHashes ==
    {create_blob(EmptyMap, c).hash : c \in Contents} \cup {WorkingHash(TextNUL)}

HeadHashes == {create_blob(EmptyMap, c).hash : c \in Contents}

\* the maps from some of the paths to the addresses of S
PathMaps(S) == UNION {[D -> S] : D \in SUBSET Paths}

\* a pattern file that names the root of the walk
DotContent == <<<<".">>, LF>>

IndexInputs  == {NoFile} \cup {File(WriteIndexLines(m)) : m \in PathMaps(StatusHashes)}
IgnoreInputs == {NoFile, File(IgnoreContent), File(DotContent)}

StatusInit ==
    /\ xitDir = TRUE
    /\ head = File(HeadContent)
    /\ xitRefs = EmptyMap
    /\ gitRefs = EmptyMap
    /\ objects = EmptyMap
    /\ index \in IndexInputs
    /\ wd \in [Paths -> {NoFile} \cup {File(c) : c \in Contents}]
    /\ xitignore \in IgnoreInputs
    /\ globalUser = NoFile
    /\ lastOp = [op |-> "none"]
    /\ lastCommit = None
    /\ headFiles \in PathMaps(HeadHashes)

\* get_staged_changes on the index and the HEAD file map
StagedChanges ==
    /\ lastOp' = [op |-> "get_staged_changes",
                  result |-> get_staged_changes(get_index_entries(index).val, headFiles)]
    /\ UNCHANGED <<xitDir, head, xitRefs, gitRefs, objects, index, wd, xitignore,
                   globalUser, lastCommit, headFiles>>

\* check_status with the HEAD file map given
StatusQuery ==
    /\ lastOp' = [op |-> "check_status",
                  result |-> StatusOf(get_index_entries(index).val, headFiles,
                                      read_ignore_file(xitignore),
                                      WorkingTree(wd, xitignore, xitDir, head, index, gitRefs))]
    /\ UNCHANGED <<xitDir, head, xitRefs, gitRefs, objects, index, wd, xitignore,
                   globalUser, lastCommit, headFiles>>

StatusNext ==
    \/ StagedChanges
    \/ StatusQuery

StatusSpec == StatusInit /\ [][StatusNext]_vars

-----------------------------------------------------------------------------
(* Properties of the commands (checked under Spec) *)

\* C1: after a successful commit of a non-empty index, loading the index
\* yields the empty map, and resolving the branch HEAD names
\* (get_head_ref_path, then get_commit_hash) yields the address of the
\* commit object just written.
CommitClearsIndexAndMovesBranch ==
    (lastOp.op = "commit" /\ lastOp.ok /\ lastOp.commit.some) =>
        /\ get_index_entries(index) = Ok(EmptyMap)
        /\ get_head_ref_path(head).ok
        /\ get_commit_hash(xitRefs, get_head_ref_path(head).val) = Ok(lastOp.commit.val)

\* C2: the first successful commit records no parent, and every later one
\* records as parent the address of the commit made by the successful commit
\* before it.
CommitRecordsPrecedingCommit ==
    [][(lastOp'.op = "commit" /\ lastOp'.ok /\ lastOp'.commit.some)
            => lastOp'.parent = lastCommit]_vars

\* C3: in a status result, a staged path whose file on disk holds exactly
\* the bytes that add staged is not "modified"; a staged path is "modified"
\* only when its file holds other bytes than the staged ones.
StatusHashesAsAddDoes ==
    (lastOp.op = "status" /\ lastOp.result.ok) =>
        \A p \in DOMAIN get_index_entries(index).val :
            LET unstaged == lastOp.result.val.unstaged
                same     == /\ p \in DOMAIN wd
                            /\ wd[p].exists
                            /\ create_blob(EmptyMap, wd[p].content).hash
                                   = get_index_entries(index).val[p]
            IN  (p \in DOMAIN unstaged /\ unstaged[p] = "modified") => ~same

\* C5: in a status result, a staged path is unstaged "deleted" exactly when
\* its file is absent from the working directory.
DeletedIffFileAbsent ==
    (lastOp.op = "status" /\ lastOp.result.ok) =>
        \A p \in DOMAIN get_index_entries(index).val :
            LET unstaged == lastOp.result.val.unstaged
            IN  (p \in DOMAIN unstaged /\ unstaged[p] = "deleted")
                    <=> ~(p \in DOMAIN wd /\ wd[p].exists)

\* C8: storing a blob whose content is already stored returns the address it
\* already has, leaves the same object files, and writes no file.
SecondWriteWritesNothing ==
    [][(/\ lastOp'.op = "add"
        /\ lastOp'.ok
        /\ \E a \in DOMAIN objects :
              read_object(objects, a) = Ok([kind |-> <<<<"blob">>>>, content |-> lastOp'.content]))
            => /\ lastOp'.hash \in DOMAIN objects
               /\ read_object(objects, lastOp'.hash)
                      = Ok([kind |-> <<<<"blob">>>>, content |-> lastOp'.content])
               /\ DOMAIN objects' = DOMAIN objects
               /\ ~lastOp'.wrote]_vars

\* the address of an object of kind `kind` (a text) and content `content`
AddressOf(kind, content) ==
    hash_to_hex(compute_sha1(kind \o <<SP>> \o Decimal(Len(content)) \o <<NUL>> \o content))

\* reading `hash` returns the kind `kind` and a content whose address is `hash`
ReadsBack(objs, hash, kind) ==
    LET got == read_object(objs, hash)
    IN  /\ got.ok
        /\ got.val.kind = <<<<kind>>>>
        /\ AddressOf(got.val.kind, got.val.content) = hash

\* the addresses a caller may ask for
ProbeAddresses ==
    StatusHashes \cup (IF lastCommit.some THEN {lastCommit.val} ELSE {})

\* C9: reading the address a write returned gives the kind and the content
\* written, for blobs (also with NUL bytes), trees and commits; reading an
\* address that has no object file gives NotFound.
WriteReadRoundTrip ==
    /\ (lastOp.op = "add" /\ lastOp.ok) =>
            read_object(objects, lastOp.hash)
                = Ok([kind |-> <<<<"blob">>>>, content |-> lastOp.content])
    /\ (lastOp.op = "commit" /\ lastOp.tree.some) =>
            ReadsBack(objects, lastOp.tree.val, "tree")
    /\ (lastOp.op = "commit" /\ lastOp.commit.some) =>
            ReadsBack(objects, lastOp.commit.val, "commit")
    /\ \A h \in ProbeAddresses :
            h \notin DOMAIN objects => read_object(objects, h) = Err("NotFound")

\* a blob with a NUL byte was added, a tree and a commit were written, and
\* some address has no object file
RoundTripWitness ==
    /\ lastOp.op = "commit"
    /\ lastOp.commit.some
    /\ create_blob(EmptyMap, TextNUL).hash \in DOMAIN objects
    /\ \E h \in ProbeAddresses : h \notin DOMAIN objects

\* C10: no step removes a stored address or changes the kind or the content
\* read at a stored address (a file whose bytes stay reads the same).
ObjectsImmutable ==
    [][\A a \in DOMAIN objects :
            /\ a \in DOMAIN objects'
            /\ \/ objects'[a] = objects[a]
               \/ read_object(objects', a) = read_object(objects, a)]_vars

\* a blob has been added to a store that holds a tree and a commit
ObjectsImmutableWitness ==
    /\ lastOp.op = "add"
    /\ lastOp.ok
    /\ lastCommit.some
    /\ lastCommit.val \in DOMAIN objects
    /\ \E t \in DOMAIN objects : read_object(objects, t).val.kind = <<<<"tree">>>>

-----------------------------------------------------------------------------
(* Properties of the status functions (checked under StatusSpec) *)

\* C4: the staged classification holds "new file" for each path of the index
\* that HEAD lacks, "modified" for each path in both with different hashes,
\* "deleted" for each path of HEAD that the index lacks, and nothing else.
StagedClassification ==
    lastOp.op = "get_staged_changes" =>
        LET stagedFiles == get_index_entries(index).val
            staged      == lastOp.result
        IN  /\ DOMAIN staged \subseteq DOMAIN stagedFiles \cup DOMAIN headFiles
            /\ \A p \in DOMAIN stagedFiles \cup DOMAIN headFiles :
                  IF p \notin DOMAIN headFiles
                  THEN p \in DOMAIN staged /\ staged[p] = "new file"
                  ELSE IF p \notin DOMAIN stagedFiles
                  THEN p \in DOMAIN staged /\ staged[p] = "deleted"
                  ELSE IF headFiles[p] # stagedFiles[p]
                  THEN p \in DOMAIN staged /\ staged[p] = "modified"
                  ELSE p \notin DOMAIN staged

\* the comparison has met a path that only HEAD holds next to a path that
\* HEAD and the index hold with different hashes
StagedClassificationWitness ==
    /\ lastOp.op = "get_staged_changes"
    /\ \E p \in DOMAIN lastOp.result : lastOp.result[p] = "deleted"
    /\ \E p \in DOMAIN lastOp.result : lastOp.result[p] = "modified"

\* the files of the working directory as status walks it
StatusTree == WorkingTree(wd, xitignore, xitDir, head, index, gitRefs)

\* C6: the untracked set of a status result is exactly the set of
\* working-directory paths that no ignore pattern matches and that the index
\* lacks (so a path of HEAD that the index lacks and the disk holds is
\* untracked, and a path staged as "new file" is not).
UntrackedIsUnignoredUnstaged ==
    lastOp.op = "check_status" =>
        lastOp.result.untracked =
            {p \in DOMAIN StatusTree :
                /\ ~is_ignored(WalkPath(p), read_ignore_file(xitignore))
                /\ p \notin DOMAIN get_index_entries(index).val}

\* pat is one of the segments of path, the segments being the runs between
\* the separators
HasSegment(path, pat) ==
    /\ pat # <<>>
    /\ \A k \in 1..Len(pat) : pat[k] # Slash
    /\ \E i \in 1..Len(path) :
          /\ i + Len(pat) - 1 <= Len(path)
          /\ SubSeq(path, i, i + Len(pat) - 1) = pat
          /\ i = 1 \/ path[i - 1] = Slash
          /\ i + Len(pat) - 1 = Len(path) \/ path[i + Len(pat)] = Slash

\* some segment of the path ./p that status walks is an ignore pattern
SegmentIgnored(p) ==
    \E pat \in read_ignore_file(xitignore) : HasSegment(WalkPath(p), pat)

-----------------------------------------------------------------------------
(* The tree encoder and the tree reader on arbitrary entry lists *)

\* the entry lists have at most MaxEntries entries
MaxEntries == 2

\* a file mode and a directory mode
EntryModes == { <<<<"100644">>>>, <<<<"40000">>>> }

\* a plain name, a name with a space and a separator, and the empty name
EntryNames == { <<<<"a.txt">>>>, <<<<"sub">>, SP, <<"target">>, Slash, <<"c.txt">>>>, <<>> }

\* a digest whose first bytes are 0 and 32, the digest of the empty data, and
\* a digest that is one byte short
EntryHashes ==
    { <<NUL, SP>> \o Repeat(<<"byte">>, DigestLen - 2),
      compute_sha1(<<>>),
      Repeat(<<"byte">>, DigestLen - 1) }

TreeEntryInputs ==
    {[mode |-> m, obj_type |-> IF ModeIsBlob(m) THEN "blob" ELSE "tree", hash |-> h, name |-> n] :
        m \in EntryModes, h \in EntryHashes, n \in EntryNames}

EntryLists == UNION {[1..n -> TreeEntryInputs] : n \in 0..MaxEntries}

TreeInit ==
    /\ xitDir = TRUE
    /\ head = File(HeadContent)
    /\ xitRefs = EmptyMap
    /\ gitRefs = EmptyMap
    /\ objects = EmptyMap
    /\ index = NoFile
    /\ wd = [p \in Paths |-> NoFile]
    /\ xitignore = NoFile
    /\ globalUser = NoFile
    /\ lastOp \in {[op |-> "entries", entries |-> E] : E \in EntryLists}
    /\ lastCommit = None
    /\ headFiles = EmptyMap

\* create_tree on the entries given
CreateTree ==
    /\ lastOp.op = "entries"
    /\ \E r \in {create_tree(objects, lastOp.entries)} :
          /\ objects' = r.objects
          /\ lastOp' = [op |-> "create_tree", entries |-> lastOp.entries, ok |-> r.ok,
                        hash |-> IF r.ok THEN r.val ELSE <<>>]
    /\ UNCHANGED <<xitDir, head, xitRefs, gitRefs, index, wd, xitignore, globalUser,
                   lastCommit, headFiles>>

\* list_files_in_tree on the tree just written
ListFilesInTree ==
    /\ lastOp.op = "create_tree"
    /\ lastOp.ok
    /\ lastOp' = [op |-> "list_files_in_tree", entries |-> lastOp.entries,
                  hash |-> lastOp.hash,
                  result |-> list_files_in_tree(objects, lastOp.hash)]
    /\ UNCHANGED <<xitDir, head, xitRefs, gitRefs, objects, index, wd, xitignore,
                   globalUser, lastCommit, headFiles>>

TreeNext ==
    \/ CreateTree
    \/ ListFilesInTree

TreeSpec == TreeInit /\ [][TreeNext]_vars

\* how often x occurs in the sequence s
Occurrences(s, x) == Cardinality({i \in 1..Len(s) : s[i] = x})

\* the (mode, name, address) triple of an entry given to the encoder
TripleOf(e) == [mode |-> e.mode, name |-> e.name, hash_hex |-> hash_to_hex(e.hash)]

-----------------------------------------------------------------------------
(* create_commit on arbitrary arguments *)

\* an address of 40 hexadecimal digits, one of 40 other characters, one of
\* 42 digits
GoodHash   == hash_to_hex(compute_sha1(<<>>))
NonHexHash == Repeat(<<"g">>, HexLen)
LongHash   == GoodHash \o ShortHash

CommitTreeInputs   == {GoodHash, NonHexHash, ShortHash, LongHash}
CommitParentInputs == {None, Some(GoodHash), Some(ShortHash), Some(LongHash)}
CommitAuthorInputs == {<<>>, UserName}

CommitObjectInputs ==
    {[tree_hash |-> t, parent_hash |-> p, author |-> a, committer |-> c, message |-> m] :
        t \in CommitTreeInputs, p \in CommitParentInputs,
        a \in CommitAuthorInputs, c \in CommitAuthorInputs, m \in Messages}

CommitObjectInit ==
    /\ xitDir = TRUE
    /\ head = File(HeadContent)
    /\ xitRefs = EmptyMap
    /\ gitRefs = EmptyMap
    /\ objects \in {EmptyMap, create_blob(EmptyMap, TextNUL).objects}
    /\ index = NoFile
    /\ wd = [p \in Paths |-> NoFile]
    /\ xitignore = NoFile
    /\ globalUser = NoFile
    /\ lastOp \in {[op |-> "arguments", args |-> a] : a \in CommitObjectInputs}
    /\ lastCommit = None
    /\ headFiles = EmptyMap

\* create_commit on the arguments given
CreateCommit ==
    /\ lastOp.op = "arguments"
    /\ \E r \in {create_commit(objects, lastOp.args.tree_hash, lastOp.args.parent_hash,
                               lastOp.args.author, lastOp.args.committer,
                               lastOp.args.message)} :
          /\ objects' = r.objects
          /\ lastOp' = [op |-> "create_commit", args |-> lastOp.args, ok |-> r.ok,
                        hash |-> IF r.ok THEN r.val ELSE <<>>]
    /\ UNCHANGED <<xitDir, head, xitRefs, gitRefs, index, wd, xitignore, globalUser,
                   lastCommit, headFiles>>

CommitObjectNext == CreateCommit

CommitObjectSpec == CommitObjectInit /\ [][CommitObjectNext]_vars

\* C12: create_commit fails and leaves the store as it was when the tree
\* hash is not 40 long, a given parent hash is not 40 long, or the author,
\* the committer or the message is empty; otherwise it succeeds, stores one
\* commit object and returns its address of 40 hexadecimal digits.
CreateCommitValidates ==
    [][lastOp'.op = "create_commit" =>
          LET a       == lastOp'.args
              invalid == \/ Len(a.tree_hash) # 40
                         \/ a.parent_hash.some /\ Len(a.parent_hash.val) # 40
                         \/ a.author = <<>>
                         \/ a.committer = <<>>
                         \/ a.message = <<>>
          IN  IF invalid
              THEN ~lastOp'.ok /\ objects' = objects
              ELSE /\ lastOp'.ok
                   /\ Len(lastOp'.hash) = 40
                   /\ \A k \in 1..40 : is_ascii_hexdigit(lastOp'.hash[k])
                   /\ DOMAIN objects' = DOMAIN objects \cup {lastOp'.hash}
                   /\ lastOp'.hash \notin DOMAIN objects
                   /\ \A h \in DOMAIN objects : objects'[h] = objects[h]
                   /\ read_object(objects', lastOp'.hash).ok
                   /\ read_object(objects', lastOp'.hash).val.kind = <<<<"commit">>>>]_vars

\* a call with only the message empty has failed on a store that holds a blob
CreateCommitWitness ==
    /\ lastOp.op = "create_commit"
    /\ ~lastOp.ok
    /\ lastOp.args.message = <<>>
    /\ lastOp.args.tree_hash = GoodHash
    /\ lastOp.args.parent_hash = Some(GoodHash)
    /\ lastOp.args.author # <<>>
    /\ lastOp.args.committer # <<>>
    /\ objects # EmptyMap

-----------------------------------------------------------------------------
(* Properties of the failure paths of the commit command *)

\* C13: a commit with an empty message on a non-empty index (the identity
\* being configured, so that the message is the only invalid input) fails and
\* leaves the object store, every reference and the index as they were
EmptyMessageCommitChangesNothing ==
    [][(/\ lastOp'.op = "commit"
        /\ lastOp'.message = <<>>
        /\ globalUser.exists
        /\ index.exists
        /\ DOMAIN read_index(index).val # {})
       => (/\ ~lastOp'.ok
           /\ objects' = objects
           /\ gitRefs' = gitRefs
           /\ xitRefs' = xitRefs
           /\ head' = head
           /\ index' = index)]_vars

-----------------------------------------------------------------------------
(* The commit command on the repository states in which its steps fail *)

\* index files: none, empty, one or two staged paths, and lines whose address
\* is of odd length, is not hexadecimal, or is too short for a tree entry
CommitIndexInputs ==
    {NoFile, File(<<>>)}
    \cup {File(WriteIndexLines(m)) : m \in PathMaps({create_blob(EmptyMap, TextNUL).hash}) \ {EmptyMap}}
    \cup {File(h \o <<SP>> \o FileA \o <<LF>>) :
             h \in {<<ShortHash[1]>>, SubSeq(NonHexHash, 1, 2), ShortHash}}

\* HEAD is absent, empty or names the main branch; the pointer of the branch
\* below .xit is absent or holds an address, well formed or too short
CommitStepsInit ==
    /\ xitDir = TRUE
    /\ head \in {NoFile, File(<<>>), File(HeadContent)}
    /\ xitRefs \in {EmptyMap} \cup {(MainRef :> (h \o <<LF>>)) : h \in {GoodHash, ShortHash}}
    /\ gitRefs = EmptyMap
    /\ objects = EmptyMap
    /\ index \in CommitIndexInputs
    /\ wd = [p \in Paths |-> NoFile]
    /\ xitignore = NoFile
    /\ globalUser \in {NoFile, setup_global_user(UserName, <<<<"test">>, <<"@">>, <<"example.com">>>>).val}
    /\ lastOp = [op |-> "none"]
    /\ lastCommit = None
    /\ headFiles = EmptyMap

CommitStepsNext == \E m \in Messages : Commit(m)

CommitStepsSpec == CommitStepsInit /\ [][CommitStepsNext]_vars

\* C14: a commit that fails leaves the index as it was; no object is removed
\* and the tree and commit objects the command made are in the store; the
\* index changes only by being removed, by a commit that succeeded after the
\* reference of HEAD was set to the new commit
FailedCommitKeepsIndex ==
    [][lastOp'.op = "commit" =>
         /\ ~lastOp'.ok => index' = index
         /\ \A h \in DOMAIN objects : h \in DOMAIN objects' /\ objects'[h] = objects[h]
         /\ lastOp'.tree.some => lastOp'.tree.val \in DOMAIN objects'
         /\ lastOp'.commit.some => lastOp'.commit.val \in DOMAIN objects'
         /\ index' # index =>
               /\ lastOp'.ok
               /\ index' = NoFile
               /\ lastOp'.commit.some
               /\ read_reference(gitRefs', get_head_ref_path(head).val)
                     = Ok(lastOp'.commit.val)]_vars

\* the tree and the commit were written, the reference update failed, and
\* the index is still there
FailedCommitWitness ==
    /\ lastOp.op = "commit"
    /\ ~lastOp.ok
    /\ lastOp.err = "InvalidInput"
    /\ lastOp.wroteTree
    /\ lastOp.wroteCommit
    /\ lastOp.commit.val \in DOMAIN objects
    /\ index.exists
    /\ gitRefs = EmptyMap

-----------------------------------------------------------------------------
(* Properties of the references (checked under Spec) *)

\* `hash` is 40 hexadecimal digits, the address of a stored commit object
\* whose tree object is stored too
PresentCommit(objs, hash) ==
    /\ Len(hash) = HexLen
    /\ \A i \in 1..Len(hash) : is_ascii_hexdigit(hash[i])
    /\ LET tree == get_commit_tree_hash(objs, hash)
       IN  /\ tree.ok
           /\ read_object(objs, tree.val).ok
           /\ read_object(objs, tree.val).val.kind = <<<<"tree">>>>

-----------------------------------------------------------------------------
(* The readers of HEAD and of the branch pointer, on the files given *)

\* HEAD files: absent, the symbolic form (with and without its newline), a
\* raw commit address, a path without the "ref: " prefix, other text, empty
HeadInputs ==
    {NoFile, File(HeadContent), File(<<<<"ref:">>, SP>> \o MainRef),
     File(GoodHash \o <<LF>>), File(MainRef \o <<LF>>),
     File(<<<<"garbage">>, SP, <<"text">>, LF>>), File(<<>>)}

\* the content of .xit/refs/heads/main: an address, bare or surrounded by
\* white space, and contents that are empty, too short, too long or not
\* hexadecimal
PointerInputs ==
    {GoodHash \o <<LF>>, GoodHash, <<SP>> \o GoodHash \o <<CR, LF>>, <<>>, <<LF>>,
     ShortHash \o <<LF>>, LongHash \o <<LF>>, NonHexHash \o <<LF>>}

RefReadInit ==
    /\ xitDir = TRUE
    /\ head \in HeadInputs
    /\ xitRefs \in {EmptyMap} \cup {(MainRef :> c) : c \in PointerInputs}
    /\ gitRefs = EmptyMap
    /\ objects = EmptyMap
    /\ index = NoFile
    /\ wd = [p \in Paths |-> NoFile]
    /\ xitignore = NoFile
    /\ globalUser = NoFile
    /\ lastOp = [op |-> "none"]
    /\ lastCommit = None
    /\ headFiles = EmptyMap

\* get_head_ref_path on the HEAD file
GetHeadRefPath ==
    /\ lastOp' = [op |-> "get_head_ref_path", result |-> get_head_ref_path(head)]
    /\ UNCHANGED <<xitDir, head, xitRefs, gitRefs, objects, index, wd, xitignore,
                   globalUser, lastCommit, headFiles>>

\* get_commit_hash on the path read from HEAD, as commit and status call it
GetCommitHash ==
    /\ get_head_ref_path(head).ok
    /\ lastOp' = [op |-> "get_commit_hash", ref_path |-> get_head_ref_path(head).val,
                  result |-> get_commit_hash(xitRefs, get_head_ref_path(head).val)]
    /\ UNCHANGED <<xitDir, head, xitRefs, gitRefs, objects, index, wd, xitignore,
                   globalUser, lastCommit, headFiles>>

RefReadNext ==
    \/ GetHeadRefPath
    \/ GetCommitHash

RefReadSpec == RefReadInit /\ [][RefReadNext]_vars

\* C16: reading the target of a HEAD file that does not start with "ref: "
\* fails; it does not return the content as a reference path
HeadAcceptsOnlySymbolicForm ==
    (/\ lastOp.op = "get_head_ref_path"
     /\ head.exists
     /\ ~StartsWith(head.content, <<<<"ref:">>, SP>>))
    => ~lastOp.result.ok

\* C17: resolving a reference path gives "no commit yet" when the pointer file
\* is absent, the trimmed content when it is 40 hexadecimal digits, and a
\* failure for every other content
GetCommitHashValidates ==
    lastOp.op = "get_commit_hash" =>
        LET f == RefFile(xitRefs, lastOp.ref_path)
        IN  IF ~f.exists THEN lastOp.result = Err("NotFound")
            ELSE IF /\ Len(trim(f.content)) = HexLen
                    /\ \A i \in 1..Len(trim(f.content)) : is_ascii_hexdigit(trim(f.content)[i])
                 THEN lastOp.result = Ok(trim(f.content))
                 ELSE ~lastOp.result.ok

-----------------------------------------------------------------------------
(* The reference commands of objects/update.rs as a state machine *)

\* a second well-formed address
OtherHash == hash_to_hex(compute_sha1(<<<<"x">>>>))

\* the addresses and the reference paths a caller passes
RefHashInputs == {GoodHash, OtherHash, ShortHash, NonHexHash}
RefPathInputs == {<<>>, MainRef, RefsTags \o <<<<"v1">>>>}

\* the repository directory is there or not; below .git no reference has
\* been written; below .xit there is no pointer file, or one that was put
\* there by other means than these commands (none of them writes there)
RefInit ==
    /\ xitDir \in BOOLEAN
    /\ head = File(HeadContent)
    /\ xitRefs \in {EmptyMap, (RefsHeads \o <<<<"dev">>>>) :> (GoodHash \o <<LF>>),
                     (RefsTags \o <<<<"v1">>>>) :> (GoodHash \o <<LF>>)}
    /\ gitRefs = EmptyMap
    /\ objects = EmptyMap
    /\ index = NoFile
    /\ wd = [p \in Paths |-> NoFile]
    /\ xitignore = NoFile
    /\ globalUser = NoFile
    /\ lastOp = [op |-> "none"]
    /\ lastCommit = None
    /\ headFiles = EmptyMap

\* update_reference(ref_path, commit_hash); `previous` is the pointer file
\* the call found
UpdateReference(ref_path, commit_hash) ==
    \E r \in {update_reference(xitDir, xitRefs, gitRefs, ref_path, commit_hash)} :
        /\ xitRefs' = r.xitRefs
        /\ gitRefs' = r.gitRefs
        /\ lastOp' = [op |-> "update_reference", ok |-> r.ok,
                      err |-> IF r.ok THEN "" ELSE r.err,
                      ref_path |-> ref_path, commit_hash |-> commit_hash,
                      previous |-> RefFile(gitRefs, ref_path)]
        /\ UNCHANGED <<xitDir, head, objects, index, wd, xitignore, globalUser,
                       lastCommit, headFiles>>

\* read_reference(ref_path)
ReadReference(ref_path) ==
    /\ lastOp' = [op |-> "read_reference", ref_path |-> ref_path,
                  result |-> read_reference(gitRefs, ref_path)]
    /\ UNCHANGED <<xitDir, head, xitRefs, gitRefs, objects, index, wd, xitignore,
                   globalUser, lastCommit, headFiles>>

\* list_branches()
ListBranches ==
    /\ lastOp' = [op |-> "list_branches", result |-> list_branches(gitRefs)]
    /\ UNCHANGED <<xitDir, head, xitRefs, gitRefs, objects, index, wd, xitignore,
                   globalUser, lastCommit, headFiles>>

RefNext ==
    \/ \E path \in RefPathInputs, h \in RefHashInputs : UpdateReference(path, h)
    \/ \E path \in RefPathInputs : ReadReference(path)
    \/ ListBranches
    \/ \E n \in BranchNames, h \in RefHashInputs : CreateBranch(n, h)
    \/ \E n \in TagNames, h \in RefHashInputs : CreateTag(n, h)
    \/ \E n \in BranchNames : DeleteBranch(n)
    \/ \E n \in TagNames : DeleteTag(n)

RefSpec == RefInit /\ [][RefNext]_vars

\* C18: update_reference rejects an empty path, an address that is not 40
\* long and an address with a non-hexadecimal character, writing nothing;
\* when it succeeds the pointer of the path is the address and one newline,
\* whatever it held before, read_reference returns the address, and no other
\* pointer changes
UpdateReferenceWritesPointer ==
    [][lastOp'.op = "update_reference" =>
         LET path == lastOp'.ref_path
             hash == lastOp'.commit_hash
         IN  IF \/ path = <<>>
                \/ Len(hash) # HexLen
                \/ \E i \in 1..Len(hash) : ~is_ascii_hexdigit(hash[i])
             THEN /\ ~lastOp'.ok
                  /\ gitRefs' = gitRefs
                  /\ xitRefs' = xitRefs
             ELSE /\ lastOp'.ok <=> xitDir
                  /\ ~lastOp'.ok => gitRefs' = gitRefs /\ xitRefs' = xitRefs
                  /\ lastOp'.ok =>
                        /\ DOMAIN gitRefs' = DOMAIN gitRefs \cup {path}
                        /\ gitRefs'[path] = hash \o <<LF>>
                        /\ read_reference(gitRefs', path) = Ok(hash)
                        /\ \A q \in DOMAIN gitRefs \ {path} : gitRefs'[q] = gitRefs[q]
                        /\ xitRefs' = xitRefs]_vars

\* an update has replaced the other address the pointer held
UpdateReferenceWitness ==
    /\ lastOp.op = "update_reference"
    /\ lastOp.ok
    /\ lastOp.previous = File(GoodHash \o <<LF>>)
    /\ lastOp.commit_hash = OtherHash
    /\ read_reference(gitRefs, lastOp.ref_path) = Ok(OtherHash)

\* a pointer file of the reference path exists, below .git (where
\* update_reference writes it) or below .xit
PointerExists(xrefs, grefs, ref_path) ==
    ref_path \in DOMAIN grefs \/ ref_path \in DOMAIN xrefs

\* C19: create_branch and create_tag on a name whose pointer exists fail with
\* AlreadyExists and leave the pointer as it is
CreateFailsWhenPointerExists ==
    [][/\ \A n \in BranchNames, h \in RefHashInputs :
             (PointerExists(xitRefs, gitRefs, RefsHeads \o n) /\ CreateBranch(n, h))
             => (lastOp'.err = "AlreadyExists" /\ gitRefs' = gitRefs /\ xitRefs' = xitRefs)
       /\ \A n \in TagNames, h \in RefHashInputs :
             (PointerExists(xitRefs, gitRefs, RefsTags \o n) /\ CreateTag(n, h))
             => (lastOp'.err = "AlreadyExists" /\ gitRefs' = gitRefs /\ xitRefs' = xitRefs)]_vars

\* C20: delete_branch and delete_tag fail with NotFound exactly when the name
\* has no pointer, and otherwise remove it, so that list_branches no longer
\* returns the name
DeleteRemovesPointer ==
    [][/\ \A n \in BranchNames :
             DeleteBranch(n) =>
                IF PointerExists(xitRefs, gitRefs, RefsHeads \o n)
                THEN /\ lastOp'.ok
                     /\ ~PointerExists(xitRefs', gitRefs', RefsHeads \o n)
                     /\ n \notin list_branches(gitRefs')
                ELSE lastOp'.err = "NotFound"
       /\ \A n \in TagNames :
             DeleteTag(n) =>
                IF PointerExists(xitRefs, gitRefs, RefsTags \o n)
                THEN /\ lastOp'.ok
                     /\ ~PointerExists(xitRefs', gitRefs', RefsTags \o n)
                ELSE lastOp'.err = "NotFound"]_vars

-----------------------------------------------------------------------------
(* Properties of the commit command on an index without entries
   (checked under CommitStepsSpec) *)

\* C21: a commit that finds no index file or an index without entries writes
\* no object, creates or changes no reference and leaves the index as it was;
\* it returns the "nothing to commit" failure for the absent file and
\* success for the empty one
NothingStagedNoEffect ==
    [][(lastOp'.op = "commit" /\ (~index.exists \/ DOMAIN read_index(index).val = {}))
       => /\ objects' = objects
          /\ gitRefs' = gitRefs
          /\ xitRefs' = xitRefs
          /\ head' = head
          /\ index' = index
          /\ ~lastOp'.wroteTree /\ ~lastOp'.wroteCommit
          /\ lastOp'.commit = None
          /\ IF index.exists THEN lastOp'.ok ELSE lastOp'.err = "NotFound"]_vars

\* a commit returned on an index file that exists and holds no entry
NothingStagedWitness ==
    /\ lastOp.op = "commit"
    /\ lastOp.ok
    /\ lastOp.commit = None
    /\ index = File(<<>>)
    /\ objects = EmptyMap
    /\ gitRefs = EmptyMap

-----------------------------------------------------------------------------
(* Properties of the tree a commit builds (checked under Spec) *)

\* C22: the tree object a commit builds has one entry per staged path, of
\* mode 100644 and named by the whole path, and list_files_in_tree on it
\* gives the index map the commit read: the same paths with the same
\* addresses and no other path
CommitTreeIsIndex ==
    [][(lastOp'.op = "commit" /\ lastOp'.tree.some) =>
         LET staged  == read_index(index).val
             entries == read_tree_entries(objects', lastOp'.tree.val)
         IN  /\ list_files_in_tree(objects', lastOp'.tree.val) = Ok(staged)
             /\ entries.ok
             /\ Len(entries.val) = Cardinality(DOMAIN staged)
             /\ \A i \in 1..Len(entries.val) :
                   /\ entries.val[i].mode = <<<<"100644">>>>
                   /\ entries.val[i].name \in DOMAIN staged
                   /\ entries.val[i].hash_hex = staged[entries.val[i].name]
             /\ \A q \in DOMAIN staged :
                   \E i \in 1..Len(entries.val) : entries.val[i].name = q]_vars

\* a second commit has succeeded whose tree lists target/c.txt alone, the
\* tree of the first commit being in the store
CommitTreeWitness ==
    /\ lastOp.op = "commit"
    /\ lastOp.ok
    /\ lastOp.tree.some
    /\ Cardinality(ObjectsOfKind(objects, "tree")) = 2
    /\ list_files_in_tree(objects, lastOp.tree.val).ok
    /\ DOMAIN list_files_in_tree(objects, lastOp.tree.val).val = {FileC}

-----------------------------------------------------------------------------
(* list_files_in_tree on stored objects of any content *)

MaxPrefixLen == 4

\* object contents: up to MaxPrefixLen bytes among a mode, a space, a name
\* and a NUL, followed by no, 19 or 20 other bytes
TreeContentInputs ==
    {prefix \o Repeat(<<"byte">>, k) :
        prefix \in UNION {[1..n -> {<<"100644">>, SP, <<"a.txt">>, NUL}] : n \in 0..MaxPrefixLen},
        k \in {0, DigestLen - 1, DigestLen}}

\* the store holds one object, a tree or a blob, of one of these contents
TreeDecodeInit ==
    /\ xitDir = TRUE
    /\ head = File(HeadContent)
    /\ xitRefs = EmptyMap
    /\ gitRefs = EmptyMap
    /\ \E kind \in {"tree", "blob"}, content \in TreeContentInputs :
          \E w \in {StoreObject(EmptyMap, kind, content)} :
             /\ objects = w.objects
             /\ lastOp = [op |-> "stored", kind |-> kind, content |-> content, hash |-> w.hash]
    /\ index = NoFile
    /\ wd = [p \in Paths |-> NoFile]
    /\ xitignore = NoFile
    /\ globalUser = NoFile
    /\ lastCommit = None
    /\ headFiles = EmptyMap

\* list_files_in_tree on the address of the stored object
ListFilesInStoredObject ==
    /\ lastOp.op = "stored"
    /\ lastOp' = [op |-> "list_files_in_tree", kind |-> lastOp.kind,
                  content |-> lastOp.content,
                  result |-> list_files_in_tree(objects, lastOp.hash)]
    /\ UNCHANGED <<xitDir, head, xitRefs, gitRefs, objects, index, wd, xitignore,
                   globalUser, lastCommit, headFiles>>

TreeDecodeNext == ListFilesInStoredObject

TreeDecodeSpec == TreeDecodeInit /\ [][TreeDecodeNext]_vars

\* C23: list_files_in_tree on a stored object returns a path map or an
\* error, and never aborts the program: an object of another kind and a
\* malformed entry are rejected with InvalidData
TreeDecodeNeverAborts ==
    lastOp.op = "list_files_in_tree" =>
        /\ lastOp.result.ok \/ lastOp.result.err # "panic"
        /\ lastOp.kind # "tree" => lastOp.result = Err("InvalidData")

-----------------------------------------------------------------------------
(* list_files_recursive step by step, on stores whose trees name each other *)

\* the number of frames of list_files_recursive the call stack holds; more
\* than the longest chain of trees without a cycle in the stores below
MaxDepth == 4

\* one iteration of the loop of list_files_recursive: the entry of `content`
\* at `cursor` (1-based) and the cursor after it
TreeEntryAt(content, cursor) ==
    LET rest      == SubSeq(content, cursor, Len(content))
        space_rel == Position(rest, SP)
        null_rel  == Position(rest, NUL)
        space_pos == space_rel + cursor - 1
        null_pos  == null_rel + cursor - 1
    IN  IF space_rel = 0 THEN Err("InvalidData")
        ELSE IF null_rel = 0 THEN Err("InvalidData")
        ELSE IF space_pos + 1 > null_pos THEN Err("panic")
        ELSE IF null_pos + DigestLen > Len(content) THEN Err("panic")
        ELSE Ok([mode     |-> SubSeq(content, cursor, space_pos - 1),
                 name     |-> SubSeq(content, space_pos + 1, null_pos - 1),
                 hash_hex |-> hash_to_hex(SubSeq(content, null_pos + 1, null_pos + DigestLen)),
                 next     |-> null_pos + DigestLen + 1])

\* the 20 bytes of the address of the object file `which`
WalkBytes(which) == Repeat(<<which>>, DigestLen)

\* tree contents of at most two entries: a file, and directories whose
\* address is the one of the object file x, of the object file y, or of no
\* object file
WalkContentInputs ==
    LET entries == {<<<<"100644">>, SP, <<"a.txt">>, NUL>> \o WalkBytes("blob")}
                   \cup {<<<<"40000">>, SP, <<"sub">>, NUL>> \o WalkBytes(w) :
                            w \in {"x", "y", "missing"}}
    IN  {<<>>} \cup entries \cup {a \o b : a \in entries, b \in entries}

\* the call of list_files_recursive on tree_hash, made with `stack` frames
\* open: the failure of read_object, the frame of the tree it read, or the
\* overflow of the call stack
EnterTree(objs, tree_hash, current_path, stack, files) ==
    LET obj == read_object(objs, tree_hash)
    IN  IF Len(stack) >= MaxDepth
        THEN [op |-> "list_files_in_tree", result |-> Err("stack overflow")]
        ELSE IF ~obj.ok THEN [op |-> "list_files_in_tree", result |-> obj]
        ELSE IF obj.val.kind # <<<<"tree">>>>
        THEN [op |-> "list_files_in_tree", result |-> Err("InvalidData")]
        ELSE [op |-> "list_files_recursive",
              stack |-> <<[content |-> obj.val.content, cursor |-> 1,
                           current_path |-> current_path]>> \o stack,
              files |-> files]

\* the store holds the tree object files x and y, whose entries name x, y,
\* an absent object or a file: the trees of a store that was damaged
TreeWalkInit ==
    /\ xitDir = TRUE
    /\ head = File(HeadContent)
    /\ xitRefs = EmptyMap
    /\ gitRefs = EmptyMap
    /\ \E cx \in WalkContentInputs, cy \in WalkContentInputs :
          objects = WriteObjectFile(
                        WriteObjectFile(EmptyMap, hash_to_hex(WalkBytes("x")),
                                        compress_zlib(ObjectHeader("tree", cx) \o cx)),
                        hash_to_hex(WalkBytes("y")),
                        compress_zlib(ObjectHeader("tree", cy) \o cy))
    /\ index = NoFile
    /\ wd = [p \in Paths |-> NoFile]
    /\ xitignore = NoFile
    /\ globalUser = NoFile
    /\ lastOp = [op |-> "none"]
    /\ lastCommit = None
    /\ headFiles = EmptyMap

\* list_files_in_tree on the address of x: the first call of
\* list_files_recursive
StartListFiles ==
    /\ lastOp.op = "none"
    /\ lastOp' = EnterTree(objects, hash_to_hex(WalkBytes("x")), <<>>, <<>>, EmptyMap)
    /\ UNCHANGED <<xitDir, head, xitRefs, gitRefs, objects, index, wd, xitignore,
                   globalUser, lastCommit, headFiles>>

\* the innermost call of list_files_recursive returns at the end of its
\* content, or reads one entry: a file is recorded, a directory is entered
ListFilesStep ==
    /\ lastOp.op = "list_files_recursive"
    /\ LET frame == Head(lastOp.stack)
           entry == TreeEntryAt(frame.content, frame.cursor)
           path  == IF frame.current_path = <<>> THEN entry.val.name
                    ELSE frame.current_path \o <<Slash>> \o entry.val.name
           after == <<[frame EXCEPT !.cursor = entry.val.next]>> \o Tail(lastOp.stack)
       IN  lastOp' =
             IF frame.cursor > Len(frame.content)
             THEN IF Len(lastOp.stack) = 1
                  THEN [op |-> "list_files_in_tree", result |-> Ok(lastOp.files)]
                  ELSE [lastOp EXCEPT !.stack = Tail(lastOp.stack)]
             ELSE IF ~entry.ok THEN [op |-> "list_files_in_tree", result |-> entry]
             ELSE IF ModeIsBlob(entry.val.mode)
             THEN [lastOp EXCEPT !.stack = after,
                                 !.files = Insert(lastOp.files, path, entry.val.hash_hex)]
             ELSE EnterTree(objects, entry.val.hash_hex, path, after, lastOp.files)
    /\ UNCHANGED <<xitDir, head, xitRefs, gitRefs, objects, index, wd, xitignore,
                   globalUser, lastCommit, headFiles>>

TreeWalkNext ==
    \/ StartListFiles
    \/ ListFilesStep

TreeWalkSpec == TreeWalkInit /\ [][TreeWalkNext]_vars

\* C24: list_files_in_tree returns on every store, a store whose trees name
\* each other in a cycle included: the recursion is cut and the call fails
\* with an error, it does not recurse until the call stack is exhausted
TreeWalkIsCut ==
    lastOp.op = "list_files_in_tree" =>
        lastOp.result.ok \/ lastOp.result.err # "stack overflow"

-----------------------------------------------------------------------------
(* Properties of the staging index (checked under Spec) *)

\* C25: an add that succeeds sets the index entry of its path to the blob
\* address of the content of the file and leaves every other entry as it
\* was; the index file holds one line per path; an add that fails leaves
\* the index as it was
AddSetsOneEntry ==
    [][lastOp'.op = "add" =>
         IF ~lastOp'.ok THEN index' = index
         ELSE LET before == IF index.exists THEN read_index(index).val ELSE EmptyMap
                  after  == read_index(index').val
              IN  /\ index'.exists
                  /\ DOMAIN after = DOMAIN before \cup {lastOp'.path}
                  /\ after[lastOp'.path] = create_blob(EmptyMap, wd[lastOp'.path].content).hash
                  /\ \A q \in DOMAIN before \ {lastOp'.path} : after[q] = before[q]
                  /\ Len(lines(index'.content)) = Cardinality(DOMAIN after)]_vars

\* a.txt was staged with its second content while target/c.txt is staged
AddSetsOneEntryWitness ==
    /\ lastOp.op = "add"
    /\ lastOp.ok
    /\ lastOp.path = FileA
    /\ lastOp.content = TextNUL
    /\ index.exists
    /\ DOMAIN read_index(index).val = {FileA, FileC}
    /\ read_index(index).val[FileA] = create_blob(EmptyMap, TextNUL).hash
    /\ read_index(index).val[FileC] = create_blob(EmptyMap, TextCRLF).hash
    /\ create_blob(EmptyMap, TextCRLF).hash \in DOMAIN objects

-----------------------------------------------------------------------------
(* The status query on repositories whose branch pointer names an object *)

\* the pointer of the main branch holds the address of a commit of a.txt;
\* the store holds that commit and its tree, or lacks the commit, or holds
\* other bytes at its address, or lacks the tree, or the pointer or the
\* commit names a blob
StatusHeadInit ==
    /\ xitDir = TRUE
    /\ head = File(HeadContent)
    /\ gitRefs = EmptyMap
    /\ LET blob    == create_blob(EmptyMap, TextCRLF)
           author  == AuthorOf([name |-> UserName, email |-> <<<<"test">>>>])
           message == <<<<"msg">>>>
           tree    == create_tree_from_index(blob.objects, FileA :> blob.hash)
           whole   == create_commit(tree.objects, tree.val, None, author, author, message)
           no_tree == create_commit(blob.objects, tree.val, None, author, author, message)
           of_blob == create_commit(blob.objects, blob.hash, None, author, author, message)
       IN  \E s \in {[objects |-> whole.objects, commit |-> whole.val],
                      [objects |-> tree.objects, commit |-> whole.val],
                      [objects |-> WriteObjectFile(tree.objects, whole.val, <<<<"garbage">>>>),
                       commit |-> whole.val],
                      [objects |-> tree.objects, commit |-> blob.hash],
                      [objects |-> no_tree.objects, commit |-> no_tree.val],
                      [objects |-> of_blob.objects, commit |-> of_blob.val]} :
              /\ objects = s.objects
              /\ xitRefs = (MainRef :> (s.commit \o <<LF>>))
    /\ index \in {NoFile} \cup {File(WriteIndexLines(m)) : m \in PathMaps(HeadHashes)}
    /\ wd \in [Paths -> {NoFile, File(TextCRLF)}]
    /\ xitignore = NoFile
    /\ globalUser = NoFile
    /\ lastOp = [op |-> "none"]
    /\ lastCommit = None
    /\ headFiles = EmptyMap

StatusHeadNext == Status

StatusHeadSpec == StatusHeadInit /\ [][StatusHeadNext]_vars

\* C26: when the pointer of HEAD's branch exists and the commit or the tree
\* it leads to cannot be read as a commit or as a tree, the status query
\* returns a failure
StatusReportsBrokenHead ==
    (/\ lastOp.op = "status"
     /\ get_commit_hash(xitRefs, get_head_ref_path(head).val).ok
     /\ LET tree == get_commit_tree_hash(objects,
                        get_commit_hash(xitRefs, get_head_ref_path(head).val).val)
        IN  ~tree.ok \/ ~list_files_in_tree(objects, tree.val).ok)
    => ~lastOp.result.ok

-----------------------------------------------------------------------------
(* Properties of the status query after a commit (checked under Spec) *)

\* C27: a status query that follows a successful commit, the committed files
\* being in the working directory with the content that was staged, lists
\* none of them as staged, unstaged or untracked
StatusCleanAfterCommit ==
    [][(/\ lastOp.op = "commit"
        /\ lastOp.ok
        /\ lastOp.commit.some
        /\ lastOp'.op = "status"
        /\ LET files == list_files_in_tree(objects, lastOp.tree.val).val
           IN  \A q \in DOMAIN files :
                  /\ wd[q].exists
                  /\ create_blob(EmptyMap, wd[q].content).hash = files[q])
       => /\ lastOp'.result.ok
          /\ \A q \in DOMAIN list_files_in_tree(objects, lastOp.tree.val).val :
                /\ q \notin DOMAIN lastOp'.result.val.staged
                /\ q \notin DOMAIN lastOp'.result.val.unstaged
                /\ q \notin lastOp'.result.val.untracked]_vars

====
